---- MODULE Spec2Model ----
(***************************************************************************)
(* The Cubist estimator (src/cubist/cubist.py): fit and predict as a state *)
(* machine over the estimator's attributes.                                *)
(*                                                                         *)
(* Texts are sequences of tokens (a token is a short string standing for a *)
(* run of characters that the code never splits).  Floating-point values   *)
(* with one decimal are integers counted in tenths.                        *)
(***************************************************************************)
EXTENDS Integers, Sequences, FiniteSets, TLC

\* ------------------------------------------------------------------ bounds
\* Largest integer part of the MaxDistance value the engine writes.
MaxIntPart == 1

\* ------------------------------------------------- program constants (fit)
MinNeighbors == 1
MaxNeighbors == 9

\* ------------------------------------------------------------ Python str
\* A closing double quote; an attribute name token such as "insts=" stands
\* for the name, the equals sign and the opening quote.
DQ == "\""
NL == "\n"

\* s[i:] and s[:i] of Python, with 0-based i (0 <= i <= len(s)).
SliceFrom(s, i) == SubSeq(s, i + 1, Len(s))
SliceTo(s, i) == SubSeq(s, 1, i)

MatchesAt(s, pat, i) ==
    /\ i + Len(pat) <= Len(s)
    /\ \A j \in 1..Len(pat) : s[i + j] = pat[j]

\* str.find: the 0-based position of the first occurrence, -1 when absent.
\* str.index is find that raises ValueError on -1.
RECURSIVE FindFrom(_, _, _)
FindFrom(s, pat, i) ==
    IF i + Len(pat) > Len(s) THEN -1
    ELSE IF MatchesAt(s, pat, i) THEN i
    ELSE FindFrom(s, pat, i + 1)

Find(s, pat) == FindFrom(s, pat, 0)

\* `pat in s`
In(pat, s) == Find(s, pat) >= 0

\* str.replace(old, new): every non-overlapping occurrence, left to right.
RECURSIVE Replace(_, _, _)
Replace(s, old, new) ==
    LET p == Find(s, old)
    IN IF p < 0 THEN s
       ELSE SliceTo(s, p) \o new \o Replace(SliceFrom(s, p + Len(old)), old, new)

\* ----------------------------------------------------- numbers and formats
\* f"{n}" of an int: its decimal digits, one token.
FormatInt(n) == <<ToString(n)>>

\* int(x) of a non-negative float x held in tenths: truncation.
IntOf(tenths) == tenths \div 10

Digits == 0..9

\* float("i") and float("i.f") as tenths; -1 when the text is no number.
FloatOf(text) ==
    IF Len(text) = 1 /\ \E i \in 0..MaxIntPart : ToString(i) = text[1]
    THEN 10 * (CHOOSE i \in 0..MaxIntPart : ToString(i) = text[1])
    ELSE IF /\ Len(text) = 3
            /\ text[2] = "."
            /\ \E i \in 0..MaxIntPart : ToString(i) = text[1]
            /\ \E f \in Digits : ToString(f) = text[3]
    THEN 10 * (CHOOSE i \in 0..MaxIntPart : ToString(i) = text[1])
         + (CHOOSE f \in Digits : ToString(f) = text[3])
    ELSE -1

\* ------------------------------------------------- header attribute texts
\* 'insts="0"'
DisabledString == <<"insts=", "0", DQ>>

\* 'insts="1" nn="<nn>" maxd="<maxd>"' with the two values given as texts.
EnabledString(nn, maxd) ==
    <<"insts=", "1", DQ, " nn=">> \o nn \o <<DQ, " maxd=">> \o maxd \o <<DQ>>

\* ------------------------------------------------------------ Python values
\* A text attribute is unset, a str, a bytes or a zlib stream; val is always
\* a sequence of tokens.
Unset == [type |-> "unset", val |-> <<>>]
Str(s) == [type |-> "str", val |-> s]
Bytes(s) == [type |-> "bytes", val |-> s]

\* Any other attribute is <<>> while unset and <<value>> once assigned.
None == <<>>
Some(v) == <<v>>

\* str.encode() and bytes.decode() on ASCII text: the same code points under
\* the other type.
Encode(s) == Bytes(s.val)
Decode(b) == Str(b.val)

\* ------------------------------------------------------------------ zlib
\* A lossless stream compressor, as dictionary coding: the distinct tokens in
\* order of first appearance, a separator, then one dictionary index per
\* token of the input.
ZSep == "|"

RECURSIVE Distinct(_)
Distinct(s) ==
    IF s = <<>> THEN <<>>
    ELSE LET d == Distinct(SliceTo(s, Len(s) - 1))
         IN IF In(<<s[Len(s)]>>, d) THEN d ELSE Append(d, s[Len(s)])

\* A compressor that keeps the dictionary and drops the index stream.
ZlibLossy(b) == [type |-> "zlib", val |-> Distinct(b.val) \o <<ZSep>>]

zlib_compress(b) ==
    LET d == Distinct(b.val)
    IN [type |-> "zlib",
        val |-> d \o <<ZSep>>
                \o [i \in 1..Len(b.val) |-> ToString(Find(d, <<b.val[i]>>))]]

zlib_decompress(z) ==
    LET n == Find(z.val, <<ZSep>>)
        d == SliceTo(z.val, n)
        idx == SliceFrom(z.val, n + 1)
    IN Bytes([i \in 1..Len(idx) |->
                d[1 + (CHOOSE k \in 0..(n - 1) : ToString(k) = idx[i])]])

\* ------------------------------------------------------------ input tables
Columns == {<<"x1", "x2">>}

\* The cell of row r under column c, and the target of row r.
Cell(r, c) == ToString(r)
Target(r) == ToString(r)

\* check_X_y(..., ensure_min_samples=2)
MinSamples == 2

\* X (with y): its columns and its number of rows, one row too few or enough.
Tables == [columns : Columns, nrows : {MinSamples - 1, MinSamples}]

\* ------------------------------------------------------------- encoders
ReservedName == "__Sample"
DisplayLabel == "sample"
Marker == "entries"

RECURSIVE Concat(_)
Concat(ss) == IF ss = <<>> THEN <<>> ELSE Head(ss) \o Concat(Tail(ss))

\* The schema text: the target first, then the case-weight column under the
\* reserved name when weights are given, then one line per column.
make_names_string(X, w, label) ==
    Str(<<label, ".", NL, label, ": continuous.">>
        \o (IF w THEN <<NL, ReservedName, ": continuous.">> ELSE <<>>)
        \o Concat([i \in 1..Len(X.columns) |->
                      <<NL, X.columns[i], ": continuous.">>]))

\* The data text: one line per row, the fields in schema order.
make_data_string(X, y, w) ==
    Str(Concat([r \in 1..X.nrows |->
            (IF y THEN <<Target(r)>> ELSE <<"?">>)
            \o (IF w THEN <<",", "1">> ELSE <<>>)
            \o Concat([i \in 1..Len(X.columns) |-> <<",", Cell(r, X.columns[i])>>])
            \o <<NL>>]))

\* ------------------------------------------------------- engine model text
\* A rule: the columns of its conditions and the columns that carry a
\* coefficient in its linear formula.
Rule(conds, coefs) == [conds |-> conds, coefs |-> coefs]

\* The rule lists the engine builds.
ModelBodies ==
    { <<Rule(<<"x1">>, <<"x1", "x2">>)>>,
      <<Rule(<<"x1">>, <<"x2">>), Rule(<<"x1">>, <<>>)>>,
      <<Rule(<<>>, <<"x1">>)>> }

Range(s) == {s[i] : i \in 1..Len(s)}

BodyColumns(b) == UNION {Range(b[i].conds) \cup Range(b[i].coefs) : i \in 1..Len(b)}

RenderRule(r) ==
    <<"rule">> \o Concat([i \in 1..Len(r.conds) |-> <<"cond", r.conds[i]>>])
    \o <<"coeff">> \o r.coefs \o <<";">>

RenderBody(b) == Concat([i \in 1..Len(b) |-> RenderRule(b[i])])

\* A rule whose condition list is never closed by a coefficient line.
MalformedBody == <<"rule", "cond", "x1">>

\* The MaxDistance texts the engine writes: "i", "i.0" and "i.5".
MaxdTexts ==
    {<<ToString(i)>> : i \in 1..MaxIntPart}
    \cup {<<ToString(i), ".", ToString(f)>> : i \in 1..MaxIntPart, f \in {0, 5}}

\* The model text: the header with the instance attributes of the run, the
\* description of the case-weight attribute when the schema declares one,
\* the entries marker and the rules.
ModelText(names, nn, maxd, body) ==
    <<"id=", "Cubist", DQ, NL>> \o EnabledString(<<ToString(nn)>>, maxd)
    \o <<NL>>
    \o (IF In(<<NL, ReservedName>>, names)
        THEN <<"att=", ReservedName, DQ, NL>> ELSE <<>>)
    \o <<Marker, "=", "1", DQ, NL>> \o body

\* The diagnostics text: the attributes read, then the error or the summary.
OutputText(names, X, err) ==
    <<"Read">>
    \o (IF In(<<NL, ReservedName>>, names) THEN <<ReservedName>> ELSE <<>>)
    \o X.columns
    \o (IF err THEN <<NL, "Error", "evaluating">> ELSE <<NL, "Summary">>)

\* _cubist(namesv_, datav_, ..., neighbors_, ...): (model text, diagnostics
\* text), both bytes.  The engine is opaque: every outcome below is possible.
cubist_outcomes(namesv, datav, neighbors_, X) ==
    { [model |-> Bytes(ModelText(namesv.val, neighbors_, d, RenderBody(b))),
       output |-> Bytes(OutputText(namesv.val, X, FALSE))] :
         d \in MaxdTexts, b \in {c \in ModelBodies : BodyColumns(c) \subseteq Range(X.columns)} }
    \cup
    { [model |-> Bytes(ModelText(namesv.val, neighbors_, <<"1">>, MalformedBody)),
       output |-> Bytes(OutputText(namesv.val, X, FALSE))] }
    \cup
    { [model |-> Bytes(m), output |-> Bytes(OutputText(namesv.val, X, TRUE))] :
         m \in { <<>>,
                 ModelText(namesv.val, neighbors_, <<"1">>,
                           RenderBody(<<Rule(<<>>, <<"x1">>)>>)) } }

\* ------------------------------------------------------------- parse_model
\* The text of the header's maxd attribute, <<>> when the header has none.
HeaderMaxdText(model) ==
    LET p == Find(model, <<" maxd=">>)
        rest == SliceFrom(model, p + 1)
    IN IF p < 0 \/ Find(rest, <<DQ>>) < 0 THEN <<>>
       ELSE SliceTo(rest, Find(rest, <<DQ>>))

\* The rules after the line of the entries marker.
BodyText(model) ==
    LET p == Find(model, <<Marker, "=">>)
    IN IF p < 0 THEN <<>> ELSE SliceFrom(model, p + 5)

CoeffFixedColumns == <<"(Intercept)", "committee", "rule">>

\* parse_model(model, X): ok is FALSE when the text does not follow the
\* grammar; otherwise the rule table (None when no rule has a condition),
\* the coefficient table (one row per rule: the columns that are filled) and
\* the MaxDistance in tenths.
parse_model(model, X) ==
    LET text == model.val
        body == BodyText(text)
        bodies == {b \in ModelBodies :
                      /\ RenderBody(b) = body
                      /\ BodyColumns(b) \subseteq Range(X.columns)}
    IN IF bodies = {} \/ FloatOf(HeaderMaxdText(text)) < 0
       THEN [ok |-> FALSE]
       ELSE LET b == CHOOSE c \in bodies : TRUE
                variable == Concat([i \in 1..Len(b) |-> b[i].conds])
            IN [ok |-> TRUE,
                rules |-> [isNone |-> variable = <<>>, variable |-> variable],
                coeff |-> [columns |-> CoeffFixedColumns \o X.columns,
                           rows |-> [i \in 1..Len(b) |->
                                       Range(CoeffFixedColumns) \cup Range(b[i].coefs)]],
                maxd |-> FloatOf(HeaderMaxdText(text))]

\* get_variable_usage(output, X): per column, whether the diagnostics text
\* lists it.
get_variable_usage(output, X) ==
    [c \in Range(X.columns) |-> In(<<c>>, output.val)]

\* ------------------------------------------------- the steps of fit, predict
\* The guard without its splice: the substitution alone.
GuardNoSplice(names, model, output) ==
    IF In(<<NL, ReservedName>>, names)
    THEN [raised |-> FALSE,
          output |-> Replace(output, <<ReservedName>>, <<DisplayLabel>>),
          model |-> Replace(model, <<ReservedName>>, <<DisplayLabel>>)]
    ELSE [raised |-> FALSE, output |-> output, model |-> model]

\* fit, "replace __Sample with sample if this is used in the model": the
\* diagnostics text and the model text after the block, and whether
\* str.index raised ValueError (the model text is then the substituted one,
\* assigned before the splice).
ReservedNameGuard(names, model, output) ==
    IF In(<<NL, ReservedName>>, names)
    THEN LET out == Replace(output, <<ReservedName>>, <<DisplayLabel>>)
             m == Replace(model, <<ReservedName>>, <<DisplayLabel>>)
         IN IF Find(m, <<DisplayLabel>>) < 0 \/ Find(m, <<Marker>>) < 0
            THEN [raised |-> TRUE, output |-> out, model |-> m]
            ELSE [raised |-> FALSE, output |-> out,
                  model |-> SliceTo(m, Find(m, <<DisplayLabel>>))
                            \o SliceFrom(m, Find(m, <<Marker>>))]
    ELSE [raised |-> FALSE, output |-> output, model |-> model]

\* fit, "remove the maxd value from the model string".
RemoveMaxd(model, maxd) ==
    Replace(model,
            EnabledString(<<"1">>, FormatInt(IntOf(maxd))),
            DisabledString)

\* The toggle with the neighbor count of fit's pattern, nn="1", written in.
ToggleNN1(neighbors_, model, maxd) ==
    IF neighbors_ > 0
    THEN Replace(model, DisabledString,
                 EnabledString(<<"1">>, FormatInt(IntOf(maxd))))
    ELSE model

\* predict, lines 302-307: the model text handed to the engine.
CorrectionToggle(neighbors_, model, maxd) ==
    IF neighbors_ > 0
    THEN Replace(model, DisabledString,
                 EnabledString(FormatInt(neighbors_), FormatInt(IntOf(maxd))))
    ELSE model

\* fit, "get the names of columns that have no nan values" and the variables
\* dictionary: None when the rule table is None (variables_ is not assigned).
VariablesUsed(rules, coeff, X) ==
    LET is_na_col(c) == \A i \in 1..Len(coeff.rows) : c \in coeff.rows[i]
        not_na_cols == SliceFrom(SelectSeq(coeff.columns, is_na_col), 3)
    IN IF rules.isNone THEN None
       ELSE Some([all |-> X.columns,
                  used |-> Range(rules.variable) \cup Range(not_na_cols)])

\* ------------------------------------------------------------------ state
VARIABLES
    self,        \* the attributes fit assigns, by name
    neighbors,   \* the hyperparameter self.neighbors
    lastCall,    \* the most recent call on the estimator: its arguments, what
                 \* it passed to and got from the engine, and how it ended
    trained      \* the texts of the most recent engine training call

vars == <<self, neighbors, lastCall, trained>>

Unfitted ==
    [random_state_ |-> None, is_sample_weighted_ |-> None,
     n_features_in_ |-> None, names_string_ |-> Unset, data_string_ |-> Unset,
     model_ |-> Unset, maxd_ |-> None, rules_ |-> None, coeff_ |-> None,
     feature_importances_ |-> None, variables_ |-> None, is_fitted_ |-> None]

\* Cubist(neighbors=...) stores the hyperparameter unchecked; set_params and
\* attribute assignment change it between calls.  The settings tried: below
\* the accepted range, its low end, inside it, its high end, above it.
NeighborSettings == {0, 1, 2, MaxNeighbors, MaxNeighbors + 1}

TargetLabel == "outcome"

NoCall ==
    [op |-> "set_params", raised |-> "none", message |-> <<>>, neighbors |-> 0,
     X |-> [columns |-> <<>>, nrows |-> 0], w |-> FALSE,
     engineCalled |-> FALSE, namesv |-> <<>>, datav |-> <<>>, casesv |-> <<>>,
     rawModel |-> <<>>, rawOutput |-> <<>>,
     guarded |-> FALSE, guardModel |-> <<>>, guardOutput |-> <<>>,
     engineModel |-> <<>>]

\* ----------------------------------------------------------------- fit
\* The call fit(X, y, sample_weight) with self.neighbors = nbrs and the
\* engine returning eng.
FitCall(nbrs, X, w, eng) == [nbrs |-> nbrs, X |-> X, w |-> w, eng |-> eng]

\* The engine's answers to a fit call; a call that raises before line 214
\* never reaches the engine and has no answer.
NoAnswer == [model |-> Bytes(<<>>), output |-> Bytes(<<>>)]

EngineAnswers(nbrs, X, w) ==
    IF nbrs < MinNeighbors \/ nbrs > MaxNeighbors \/ X.nrows < MinSamples
    THEN {NoAnswer}
    ELSE cubist_outcomes(Encode(make_names_string(X, w, TargetLabel)),
                         Encode(make_data_string(X, TRUE, w)), nbrs, X)

FitCalls ==
    UNION { { FitCall(n, X, w, eng) : eng \in EngineAnswers(n, X, w) } :
            n \in NeighborSettings, X \in Tables, w \in BOOLEAN }

\* The last line a fit call completes and the exception it ends with
\* ("none" when it returns), given what its guard block and parse_model do.
FitEnd(c, g, parsed) ==
    IF c.nbrs < MinNeighbors \/ c.nbrs > MaxNeighbors
    THEN [line |-> 174, raised |-> "ValueError"]
    ELSE IF c.X.nrows < MinSamples
    THEN [line |-> 182, raised |-> "ValueError"]
    ELSE IF g.raised
    THEN [line |-> 234, raised |-> "ValueError"]
    ELSE IF In(<<"Error">>, g.output)
    THEN [line |-> 237, raised |-> "Exception"]
    ELSE IF ~parsed.ok
    THEN [line |-> 249, raised |-> "ModelParseError"]
    ELSE [line |-> 279, raised |-> "none"]

\* Lines 248-276, given the texts, the guard's result g and parse_model's
\* result.
FitParsed(c, names, data, g, end, rules, coeff, maxd) ==
    [line |-> end.line,
     raised |-> end.raised,
     names |-> names,
     data |-> data,
     guardModel |-> g.model,
     guardOutput |-> g.output,
     \* lines 248-249
     names_z |-> zlib_compress(Encode(names)),
     data_z |-> zlib_compress(Encode(data)),
     \* line 252
     rules |-> rules, coeff |-> coeff, maxd |-> maxd,
     \* lines 255-257
     model |-> RemoveMaxd(g.model, maxd),
     \* line 260
     usage |-> get_variable_usage(Str(g.output), c.X),
     \* lines 263-276
     variables |-> VariablesUsed(rules, coeff, c.X)]

\* Line 252, given the guard's result.
FitGuarded(c, names, data, g, parsed) ==
    IF parsed.ok
    THEN FitParsed(c, names, data, g, FitEnd(c, g, parsed),
                   parsed.rules, parsed.coeff, parsed.maxd)
    ELSE FitParsed(c, names, data, g, FitEnd(c, g, parsed),
                   [isNone |-> TRUE, variable |-> <<>>],
                   [columns |-> <<>>, rows |-> <<>>], 0)

\* Lines 228-237, given the schema and data texts.
FitEncoded(c, names, data, g) ==
    FitGuarded(c, names, data, g, parse_model(Str(g.model), c.X))

\* The values a fit call computes from its arguments and the engine's
\* answer, in the order of the code; none depends on the attributes the
\* estimator had before.
FitNamed(c, names, data) ==
    FitEncoded(c, names, data,
               ReservedNameGuard(names.val, Decode(c.eng.model).val,
                                 Decode(c.eng.output).val))

\* Lines 204-206.
FitValues(c) ==
    FitNamed(c, make_names_string(c.X, c.w, TargetLabel),
             make_data_string(c.X, TRUE, c.w))

FitTable == [c \in FitCalls |-> FitValues(c)]

\* The attributes and the call record of a fit call with the values v.  An
\* attribute is assigned when the call completed the line that assigns it.
FitResult(me, nbrs, X, w, eng, v) ==
    [self |->
       [random_state_ |->
            IF v.line >= 176 THEN Some("RandomState") ELSE me.random_state_,
        is_sample_weighted_ |->
            IF v.line >= 182 THEN Some(w) ELSE me.is_sample_weighted_,
        n_features_in_ |->
            IF v.line >= 201 THEN Some(Len(X.columns)) ELSE me.n_features_in_,
        names_string_ |->
            IF v.line >= 248 THEN v.names_z
            ELSE IF v.line >= 204 THEN v.names ELSE me.names_string_,
        data_string_ |->
            IF v.line >= 249 THEN v.data_z
            ELSE IF v.line >= 206 THEN v.data ELSE me.data_string_,
        model_ |->
            IF v.line >= 257 THEN Str(v.model)
            ELSE IF v.line >= 228 THEN Str(v.guardModel) ELSE me.model_,
        rules_ |-> IF v.line >= 252 THEN Some(v.rules) ELSE me.rules_,
        coeff_ |-> IF v.line >= 252 THEN Some(v.coeff) ELSE me.coeff_,
        maxd_ |-> IF v.line >= 252 THEN Some(v.maxd) ELSE me.maxd_,
        feature_importances_ |->
            IF v.line >= 260 THEN Some(v.usage) ELSE me.feature_importances_,
        variables_ |->
            IF v.line >= 276 /\ v.variables # None THEN v.variables
            ELSE me.variables_,
        is_fitted_ |-> IF v.line >= 278 THEN Some(TRUE) ELSE me.is_fitted_],
     call |->
       [op |-> "fit", raised |-> v.raised,
        message |-> IF v.raised = "Exception" THEN v.guardOutput ELSE <<>>,
        neighbors |-> nbrs, X |-> X, w |-> w,
        engineCalled |-> v.line >= 229,
        namesv |-> IF v.line >= 229 THEN Encode(v.names).val ELSE <<>>,
        datav |-> IF v.line >= 229 THEN Encode(v.data).val ELSE <<>>,
        casesv |-> <<>>,
        rawModel |-> IF v.line >= 229 THEN eng.model.val ELSE <<>>,
        rawOutput |-> IF v.line >= 229 THEN eng.output.val ELSE <<>>,
        guarded |-> v.line >= 237,
        guardModel |-> IF v.line >= 237 THEN v.guardModel ELSE <<>>,
        guardOutput |-> IF v.line >= 237 THEN v.guardOutput ELSE <<>>,
        engineModel |-> <<>>]]

\* fit(X, y, sample_weight) with the engine returning eng: the attributes
\* and the call record when the call returns or raises.
fit(me, nbrs, X, w, eng) ==
    FitResult(me, nbrs, X, w, eng, FitTable[FitCall(nbrs, X, w, eng)])

\* --------------------------------------------------------------- predict
\* check_is_fitted(self): some attribute with a trailing underscore exists.
IsFitted(me) ==
    \/ me.random_state_ # None
    \/ me.is_sample_weighted_ # None
    \/ me.is_fitted_ # None

\* A predict that assigns the toggled text to self.model_.
PredictStoresModel(me, model) == [me EXCEPT !.model_ = Str(model)]

\* The attributes after a predict call that computed the text `model` for
\* the engine: predict assigns none.
AfterPredict(me, model) == me

\* The call record of a predict call that reached the engine with the text
\* `model`.
PredictEngineCall(me, nbrs, X, model) ==
    [op |-> "predict", raised |-> "none", message |-> <<>>,
     neighbors |-> nbrs, X |-> X, w |-> FALSE,
     engineCalled |-> TRUE,
     namesv |-> zlib_decompress(me.names_string_).val,
     datav |-> Encode(make_data_string(
                  IF me.is_sample_weighted_[1]
                  THEN [X EXCEPT !.columns = @ \o <<"case_weight_pred">>] ELSE X,
                  FALSE, FALSE)).val,
     casesv |-> zlib_decompress(me.data_string_).val,
     rawModel |-> <<>>, rawOutput |-> <<>>,
     guarded |-> FALSE, guardModel |-> <<>>, guardOutput |-> <<>>,
     engineModel |-> Encode(Str(model)).val]

\* The call record of a predict call that raised.
PredictRaised(nbrs, X, exc) ==
    [NoCall EXCEPT !.op = "predict", !.neighbors = nbrs, !.X = X, !.raised = exc]

\* Lines 309-328, after the toggle gave the text `model`.
PredictToggled(me, nbrs, X, model) ==
    [self |-> AfterPredict(me, model),
     call |-> IF me.names_string_.type = "unset" \/ me.data_string_.type = "unset"
              THEN PredictRaised(nbrs, X, "AttributeError")
              ELSE IF me.names_string_.type # "zlib" \/ me.data_string_.type # "zlib"
              THEN PredictRaised(nbrs, X, "TypeError")
              ELSE PredictEngineCall(me, nbrs, X, model)]

\* predict(X): the attributes and the call record when the call returns or
\* raises.
predict(me, nbrs, X) ==
    IF ~IsFitted(me)
    THEN [self |-> me, call |-> PredictRaised(nbrs, X, "NotFittedError")]
    ELSE IF (nbrs > 0 /\ me.maxd_ = None) \/ me.model_.type = "unset"
    THEN [self |-> me, call |-> PredictRaised(nbrs, X, "AttributeError")]
    ELSE PredictToggled(me, nbrs, X,
                        CorrectionToggle(nbrs, me.model_.val, me.maxd_[1]))

\* ---------------------------------------------------------------- actions
Init ==
    /\ self = Unfitted
    /\ neighbors \in NeighborSettings
    /\ lastCall = NoCall
    /\ trained = [called |-> FALSE, namesv |-> <<>>, datav |-> <<>>]

\* self.neighbors = n; the call record then describes this call.
SetNeighbors ==
    /\ \E n \in NeighborSettings : neighbors' = n
    /\ lastCall' = NoCall
    /\ UNCHANGED <<self, trained>>

\* The estimator and the engine's record after a call with the result r.
Returned(r) ==
    /\ self' = r.self
    /\ lastCall' = r.call
    /\ trained' = IF r.call.op = "fit" /\ r.call.engineCalled
                  THEN [called |-> TRUE, namesv |-> r.call.namesv,
                        datav |-> r.call.datav]
                  ELSE trained
    /\ UNCHANGED neighbors

Fit ==
    \E X \in Tables, w \in BOOLEAN :
      \E eng \in EngineAnswers(neighbors, X, w) :
        \E r \in {fit(self, neighbors, X, w, eng)} : Returned(r)

PredictTables == {X \in Tables : X.nrows = 1}

Predict ==
    \E X \in PredictTables :
      \E r \in {predict(self, neighbors, X)} : Returned(r)

Next == SetNeighbors \/ Fit \/ Predict

Spec == Init /\ [][Next]_vars

\* ------------------------------------------------------------------ claims
\* C1: a predict call leaves the stored model text and every other fitted
\* attribute exactly as they were before the call; the text with the
\* correction enabled is local to the call.
PredictLeavesFittedState == [][lastCall'.op = "predict" => self' = self]_vars

\* A predict call that handed the engine a toggled text while the stored
\* text is in the disabled form.
PredictToggledWitness ==
    /\ lastCall.op = "predict"
    /\ lastCall.engineCalled
    /\ In(DisabledString, self.model_.val)
    /\ lastCall.engineModel # self.model_.val

\* C2: predict with a positive neighbor count on a stored model text without
\* the disabled substring fails with ModelStateError and never calls the
\* engine.
ToggleRaisesOnMissingSubstring ==
    ( /\ lastCall.op = "predict"
      /\ lastCall.neighbors > 0
      /\ self.model_.type = "str"
      /\ ~In(DisabledString, self.model_.val) )
    => (lastCall.raised = "ModelStateError" /\ ~lastCall.engineCalled)

\* C3: for a stored text in the disabled form, predict hands the engine the
\* stored text itself when the neighbor count is 0, and otherwise a text
\* whose header carries the enabled sequence with nn equal to the neighbor
\* count and maxd equal in value to the stored maxd_.
ToggleEnablesWithStoredMaxd ==
    ( /\ lastCall.op = "predict"
      /\ lastCall.engineCalled
      /\ In(DisabledString, self.model_.val) )
    => IF lastCall.neighbors = 0
       THEN lastCall.engineModel = self.model_.val
       ELSE /\ In(EnabledString(<<ToString(lastCall.neighbors)>>,
                                HeaderMaxdText(lastCall.engineModel)),
                  lastCall.engineModel)
            /\ FloatOf(HeaderMaxdText(lastCall.engineModel)) = self.maxd_[1]
            /\ ~In(DisabledString, lastCall.engineModel)

\* A predict call with more than one neighbor on a stored disabled text.
ToggleEnabledWitness ==
    /\ lastCall.op = "predict"
    /\ lastCall.engineCalled
    /\ In(DisabledString, self.model_.val)
    /\ lastCall.neighbors > 1

\* The reserved token replaced by the display label, token by token.
Relabelled(t) ==
    [i \in 1..Len(t) |-> IF t[i] = ReservedName THEN DisplayLabel ELSE t[i]]

\* The position of the first token tok of t (1-based); 0 when t has none.
FirstAt(t, tok) ==
    IF \E i \in 1..Len(t) : t[i] = tok
    THEN CHOOSE i \in 1..Len(t) : t[i] = tok /\ \A j \in 1..(i - 1) : t[j] # tok
    ELSE 0

\* C4: when the schema text declares the reserved token and the engine's
\* texts contain it, in the model text before the marker, the guard yields
\* texts without the reserved token, the model text being what precedes the
\* first display label followed by what starts at the first marker; when the
\* schema does not declare the token, both texts are unchanged.
GuardRepairsReservedName ==
    (lastCall.op = "fit" /\ lastCall.engineCalled) =>
       IF In(<<NL, ReservedName>>, lastCall.namesv)
       THEN ( /\ FirstAt(lastCall.rawOutput, ReservedName) > 0
              /\ FirstAt(lastCall.rawModel, ReservedName) > 0
              /\ \E j \in 1..Len(lastCall.rawModel) :
                   /\ j > FirstAt(lastCall.rawModel, ReservedName)
                   /\ lastCall.rawModel[j] = Marker )
            => LET m == Relabelled(lastCall.rawModel)
               IN /\ lastCall.guarded
                  /\ FirstAt(lastCall.guardOutput, ReservedName) = 0
                  /\ FirstAt(lastCall.guardModel, ReservedName) = 0
                  /\ lastCall.guardModel =
                        SubSeq(m, 1, FirstAt(m, DisplayLabel) - 1)
                        \o SubSeq(m, FirstAt(m, Marker), Len(m))
       ELSE /\ lastCall.guarded
            /\ lastCall.guardModel = lastCall.rawModel
            /\ lastCall.guardOutput = lastCall.rawOutput

\* A fit call whose guard rewrote a model text that held the reserved token.
GuardRepairedWitness ==
    /\ lastCall.op = "fit"
    /\ lastCall.guarded
    /\ FirstAt(lastCall.rawModel, ReservedName) > 0
    /\ FirstAt(lastCall.rawOutput, ReservedName) > 0
    /\ Len(lastCall.guardModel) < Len(lastCall.rawModel)

\* The attributes C5 names.
StoredModel(me) ==
    <<me.model_, me.names_string_, me.data_string_, me.maxd_, me.rules_,
      me.coeff_, me.feature_importances_, me.variables_, me.is_sample_weighted_>>

\* C5: a fit call that fails because the model text cannot be parsed sets or
\* changes none of the fitted attributes.
FailedParseStoresNothing ==
    [][(lastCall'.op = "fit" /\ lastCall'.raised = "ModelParseError")
         => StoredModel(self') = StoredModel(self)]_vars

\* C6: a fit call whose engine diagnostics contain the error marker fails
\* with the raw diagnostics text as its message; one whose diagnostics do not
\* contain it does not fail at that step.
EngineErrorSurfacedVerbatim ==
    (lastCall.op = "fit" /\ lastCall.engineCalled) =>
       IF In(<<"Error">>, lastCall.rawOutput)
       THEN lastCall.raised = "Exception" /\ lastCall.message = lastCall.rawOutput
       ELSE lastCall.raised # "Exception"

\* C7: whenever predict reaches the engine (so after any sequence of
\* successful fit calls), the schema text and the training-data text it
\* passes are those the most recent engine training call was given.
CompressionTransparent ==
    (lastCall.op = "predict" /\ lastCall.engineCalled) =>
       /\ trained.called
       /\ lastCall.namesv = trained.namesv
       /\ lastCall.casesv = trained.datav

\* A predict call that decompressed stored texts which differ from the
\* texts themselves.
DecompressedWitness ==
    /\ lastCall.op = "predict"
    /\ lastCall.engineCalled
    /\ self.names_string_.type = "zlib"
    /\ self.names_string_.val # lastCall.namesv
    /\ self.data_string_.val # lastCall.casesv
    /\ In(<<ReservedName>>, lastCall.namesv)

\* C8: after a successful fit, variables_["all"] is every input column and
\* variables_["used"] is the columns of the rule conditions together with
\* the columns that have a coefficient in at least one rule.
UsedIsConditionsOrCoefficients ==
    (lastCall.op = "fit" /\ lastCall.raised = "none") =>
       /\ self.variables_ # None
       /\ self.variables_[1].all = lastCall.X.columns
       /\ self.variables_[1].used =
            Range(self.rules_[1].variable)
            \cup {c \in Range(lastCall.X.columns) :
                    \E i \in 1..Len(self.coeff_[1].rows) : c \in self.coeff_[1].rows[i]}

\* C9: after a successful fit every fitted attribute is what the same call
\* gives on an estimator that was never fitted: nothing is left over from an
\* earlier call.
FitReplacesFittedState ==
    (lastCall.op = "fit" /\ lastCall.raised = "none") =>
       self = fit(Unfitted, lastCall.neighbors, lastCall.X, lastCall.w,
                  [model |-> Bytes(lastCall.rawModel),
                   output |-> Bytes(lastCall.rawOutput)]).self

\* C10: a successful fit stores the model text in the disabled form: it
\* contains the disabled substring and no enabled sequence.
FitStoresDisabledForm ==
    (lastCall.op = "fit" /\ lastCall.raised = "none") =>
       /\ In(DisabledString, self.model_.val)
       /\ ~In(<<"insts=", "1", DQ>>, self.model_.val)

====
